---- MODULE Spec2Model ----
(***************************************************************************)
(* Model of clickup_numbering.py: one run of ClickUpNumbering.number_tasks *)
(* under main(), against a remote list whose content is fixed for the run. *)
(*                                                                         *)
(* Strings the program builds (str(epic_number), f"{epic_number}.{idx}")   *)
(* are sequences of one-character strings, so that formatting and the      *)
(* float()/int() coercion of update_custom_field are computed, not assumed.*)
(***************************************************************************)
EXTENDS Integers, Sequences, FiniteSets, TLC

\* ------------------------------------------------------------------ bounds
MaxTasks == 3          \* longest list the remote service returns in Spec
WideChildren == 10     \* children of the single epic in SpecWide

\* ------------------------------------------------------- program constants
EpicStart == 10        \* epic_number = 10
EpicIncrement == 10    \* epic_number += 10
DefaultFieldName == "PM.Prio"

None == 0              \* absent parent reference (falsy in Python)

\* ------------------------------------------------------------ pure helpers
DigitChars == <<"0", "1", "2", "3", "4", "5", "6", "7", "8", "9">>

RECURSIVE Str(_)
\* str(n) for a non-negative int
Str(n) == IF n < 10 THEN <<DigitChars[n + 1]>>
          ELSE Str(n \div 10) \o <<DigitChars[(n % 10) + 1]>>

\* a numbering of the children that starts at 0 instead of 1
FormatSubtaskFromZero(e, idx) == Str(e) \o <<".">> \o Str(idx - 1)

\* f"{epic_number}.{idx}"
FormatSubtask(e, idx) == Str(e) \o <<".">> \o Str(idx)

IsDigit(c) == \E d \in 1..10 : DigitChars[d] = c
DigitVal(c) == (CHOOSE d \in 1..10 : DigitChars[d] = c) - 1

RECURSIVE DigitsToNat(_)
DigitsToNat(s) == IF s = <<>> THEN 0
                  ELSE 10 * DigitsToNat(SubSeq(s, 1, Len(s) - 1)) + DigitVal(s[Len(s)])

RECURSIVE StripTrailingZeros(_)
StripTrailingZeros(s) == IF s # <<>> /\ s[Len(s)] = "0"
                         THEN StripTrailingZeros(SubSeq(s, 1, Len(s) - 1))
                         ELSE s

Dots(s) == {i \in 1..Len(s) : s[i] = "."}

\* float(value) accepts the strings made of digits with at most one "." and
\* at least one digit (the only shapes this program ever builds).
FloatParses(s) ==
    /\ \A i \in 1..Len(s) : IsDigit(s[i]) \/ s[i] = "."
    /\ Cardinality(Dots(s)) <= 1
    /\ \E i \in 1..Len(s) : IsDigit(s[i])

\* The value float(s) denotes: integer part and the fraction digits without
\* trailing zeros.  Two strings denote the same float iff these agree (the
\* values here have at most a handful of significant digits, far below the
\* 15 a double keeps apart).
FloatOf(s) ==
    LET dot == IF Dots(s) = {} THEN Len(s) + 1 ELSE CHOOSE i \in Dots(s) : TRUE
    IN  [ip   |-> DigitsToNat(SubSeq(s, 1, dot - 1)),
         frac |-> StripTrailingZeros(SubSeq(s, dot + 1, Len(s)))]

\* The "value" member of the JSON body update_custom_field posts.
CoerceValue(value, field_type) ==
    IF field_type = "number"
    THEN IF FloatParses(value)
         THEN LET f == FloatOf(value)
              IN  IF f.frac = <<>>
                  THEN [t |-> "int", ip |-> f.ip, frac |-> <<>>, s |-> <<>>]
                  ELSE [t |-> "float", ip |-> f.ip, frac |-> f.frac, s |-> <<>>]
         ELSE [t |-> "str", ip |-> 0, frac |-> <<>>, s |-> value]
    ELSE [t |-> "str", ip |-> 0, frac |-> <<>>, s |-> value]

HasOptions(type_config) ==
    /\ type_config.keys # {}
    /\ "options" \in type_config.keys
    /\ Len(type_config.options) > 0

\* HTTP outcomes of a POST: a status code, or 0 for a transport failure.
Responses == {200, 204, 404, 500, 0}
RaisesForStatus(status) == status = 0 \/ (status >= 400 /\ status < 600)

\* a check of the options that only drop-down fields go through
update_custom_field_dropdown_only(task_id, field_id, value, field_type, type_config, status) ==
    IF field_type = "drop_down" /\ HasOptions(type_config)
    THEN [raised |-> "ValueError", sent |-> <<>>, ret |-> FALSE]
    ELSE LET req == [method |-> "POST", task_id |-> task_id, field_id |-> field_id,
                     value |-> CoerceValue(value, field_type)]
         IN  IF RaisesForStatus(status)
             THEN [raised |-> "RequestException", sent |-> <<req>>, ret |-> FALSE]
             ELSE [raised |-> "", sent |-> <<req>>, ret |-> (status = 200)]

\* update_custom_field: the exception it raises ("" for none), the request it
\* sent (<<>> when none was sent) and its return value.
update_custom_field(task_id, field_id, value, field_type, type_config, status) ==
    IF HasOptions(type_config)
    THEN [raised |-> "ValueError", sent |-> <<>>, ret |-> FALSE]
    ELSE LET req == [method |-> "POST", task_id |-> task_id, field_id |-> field_id,
                     value |-> CoerceValue(value, field_type)]
         IN  IF RaisesForStatus(status)
             THEN [raised |-> "RequestException", sent |-> <<req>>, ret |-> FALSE]
             ELSE [raised |-> "", sent |-> <<req>>, ret |-> (status = 200)]

\* a lookup that takes the first custom field whatever its name
get_custom_field_info_first(custom_fields, field_name) ==
    IF custom_fields = <<>> THEN <<>> ELSE <<Head(custom_fields)>>

\* get_custom_field_info: <<field>> for the first field with that name, <<>>
\* for None.
RECURSIVE get_custom_field_info(_, _)
get_custom_field_info(custom_fields, field_name) ==
    IF custom_fields = <<>> THEN <<>>
    ELSE IF Head(custom_fields).name = field_name THEN <<Head(custom_fields)>>
    ELSE get_custom_field_info(Tail(custom_fields), field_name)

\* an insertion that puts a task before the tasks of equal order_index: the
\* sort it gives is not stable
RECURSIVE InsertByOrderUnstable(_, _)
InsertByOrderUnstable(sorted, t) ==
    IF sorted = <<>> THEN <<t>>
    ELSE IF sorted[Len(sorted)].order_index < t.order_index THEN Append(sorted, t)
    ELSE Append(InsertByOrderUnstable(SubSeq(sorted, 1, Len(sorted) - 1), t),
                sorted[Len(sorted)])

\* list.sort(key=order_index): stable, ascending.
RECURSIVE InsertByOrder(_, _)
InsertByOrder(sorted, t) ==
    IF sorted = <<>> THEN <<t>>
    ELSE IF sorted[Len(sorted)].order_index <= t.order_index THEN Append(sorted, t)
    ELSE Append(InsertByOrder(SubSeq(sorted, 1, Len(sorted) - 1), t), sorted[Len(sorted)])

RECURSIVE SortByOrderIndex(_)
SortByOrderIndex(s) ==
    IF s = <<>> THEN <<>>
    ELSE InsertByOrder(SortByOrderIndex(SubSeq(s, 1, Len(s) - 1)), s[Len(s)])

\* a test that takes every task with a parent for a subtask of the epic
IsSubtaskOfAny(task, epic) == task.parent # None

IsEpic(task) == task.parent = None
IsSubtaskOf(task, epic) == task.parent = epic.id

organize_tasks_by_hierarchy(ts) ==
    LET epics == SortByOrderIndex(SelectSeq(ts, IsEpic))
    IN  [i \in 1..Len(epics) |->
            [task     |-> epics[i],
             subtasks |-> SortByOrderIndex(
                              SelectSeq(ts, LAMBDA t : IsSubtaskOf(t, epics[i])))]]

\* ------------------------------------------------------------ remote data
\* type_config is a dict: the keys it has, and the value under "options".
NoConfig == [keys |-> {}, options |-> <<>>]
EmptyOptions == [keys |-> {"options"}, options |-> <<>>]
WithOptions == [keys |-> {"options"}, options |-> <<"High", "Low">>]

OtherField == [name |-> "Sprint", id |-> "f0", type |-> "short_text", type_config |-> NoConfig]
TextField == [name |-> "PM.Prio", id |-> "f1", type |-> "short_text", type_config |-> NoConfig]
NumberField == [name |-> "PM.Prio", id |-> "f1", type |-> "number", type_config |-> EmptyOptions]
DropDownField == [name |-> "PM.Prio", id |-> "f1", type |-> "drop_down", type_config |-> WithOptions]
NumberWithOptions == [name |-> "PM.Prio", id |-> "f1", type |-> "number", type_config |-> WithOptions]

\* custom_fields of a task, as the service returns them
NoPrio == <<OtherField>>
TextPrio == <<OtherField, TextField>>

\* What the service holds for one task.  The list is a sequence and the task
\* at position i has the identifier i, so identifiers are unique; a parent
\* reference is None or the identifier of another task of the list (a root
\* or not, listed before or after the task).
TaskAttrs(n, orders, fields) ==
    [parent : 0..n, order_index : orders, custom_fields : fields]

NoSelfParent(src) == \A i \in 1..Len(src) : src[i].parent # i

\* Spec: every hierarchy and ordering, the field present or absent
StructOrders == {0, 1}
StructFields == {NoPrio, TextPrio}

\* SpecFields: every hierarchy and every kind of field, order_index all equal
FieldOrders == {0}
FieldFields == {NoPrio, TextPrio, <<DropDownField>>, <<NumberWithOptions>>}

\* SpecWide: one epic with WideChildren children, all children alike
WideList(epic_fields, child_fields) ==
    [i \in 1..(WideChildren + 1) |->
        [parent |-> IF i = 1 THEN None ELSE 1, order_index |-> i,
         custom_fields |-> IF i = 1 THEN epic_fields ELSE child_fields]]

WideEpicFields == {NoPrio, TextPrio, <<NumberField>>}
WideChildFields == {NoPrio, TextPrio, <<NumberField>>, <<DropDownField>>}

\* response.json()["tasks"]: the records of the list, each with its "id"
TaskRecord(src, i) ==
    [id |-> i, parent |-> src[i].parent, order_index |-> src[i].order_index,
     custom_fields |-> src[i].custom_fields]

get_list_tasks(src) == [i \in 1..Len(src) |-> TaskRecord(src, i)]

\* ------------------------------------------------------------------ state
VARIABLES
    source,       \* the tasks of the remote list
    dry_run,      \* --dry-run
    pc,           \* "start", "numbering", "exited"
    exit_code,    \* process exit status once pc = "exited"
    tasks,        \* number_tasks: tasks
    organized,    \* number_tasks: organized["epics"]
    epic_number,  \* number_tasks: epic_number
    ei,           \* position of the outer for loop in organized
    si,           \* 0: the epic itself is next; k >= 1: its k-th subtask is next
    out,          \* lines printed to stdout, as events
    calls,        \* invocations of update_custom_field, in order
    net           \* HTTP requests issued, in order

vars == <<source, dry_run, pc, exit_code, tasks, organized, epic_number, ei, si,
          out, calls, net>>

NoValue == [t |-> "none", ip |-> 0, frac |-> <<>>, s |-> <<>>]
GetRequest == [method |-> "GET", task_id |-> 0, field_id |-> "", value |-> NoValue]

Event(ev, id, value) == [ev |-> ev, id |-> id, value |-> value]

TypeOK ==
    /\ dry_run \in BOOLEAN
    /\ pc \in {"start", "numbering", "exited"}
    /\ exit_code \in {-1, 0, 1}
    /\ ei \in Nat /\ si \in Nat /\ epic_number \in Nat

InitRun ==
    /\ dry_run \in BOOLEAN
    /\ pc = "start"
    /\ exit_code = -1
    /\ tasks = <<>>
    /\ organized = <<>>
    /\ epic_number = 0
    /\ ei = 0
    /\ si = 0
    /\ out = <<>>
    /\ calls = <<>>
    /\ net = <<>>

Init ==
    /\ \E n \in 0..MaxTasks : source \in [1..n -> TaskAttrs(n, StructOrders, StructFields)]
    /\ NoSelfParent(source)
    /\ InitRun

\* ---------------------------------------------------------------- actions
\* a failed fetch that main swallows
FetchFailSwallowed ==
    /\ pc = "start"
    /\ net' = Append(net, GetRequest)
    /\ out' = Append(out, Event("fetching", 0, <<>>))
    /\ pc' = "exited"
    /\ exit_code' = 0
    /\ UNCHANGED <<source, dry_run, tasks, organized, epic_number, ei, si, calls>>

\* get_list_tasks raises (transport error, error status, bad JSON): the
\* exception leaves number_tasks and main exits with status 1.
FetchFail ==
    /\ pc = "start"
    /\ net' = Append(net, GetRequest)
    /\ out' = Append(out, Event("fetching", 0, <<>>))
    /\ pc' = "exited"
    /\ exit_code' = 1
    /\ UNCHANGED <<source, dry_run, tasks, organized, epic_number, ei, si, calls>>

\* get_list_tasks returns an empty list: "No tasks found", return.
FetchEmpty ==
    /\ pc = "start"
    /\ get_list_tasks(source) = <<>>
    /\ net' = Append(net, GetRequest)
    /\ out' = out \o <<Event("fetching", 0, <<>>), Event("no_tasks", 0, <<>>)>>
    /\ tasks' = get_list_tasks(source)
    /\ pc' = "exited"
    /\ exit_code' = 0
    /\ UNCHANGED <<source, dry_run, organized, epic_number, ei, si, calls>>

\* get_list_tasks returns tasks: organize them and enter the loop.
FetchTasks ==
    /\ pc = "start"
    /\ get_list_tasks(source) # <<>>
    /\ net' = Append(net, GetRequest)
    /\ out' = out \o <<Event("fetching", 0, <<>>), Event("found", 0, <<>>)>>
    /\ tasks' = get_list_tasks(source)
    /\ organized' = organize_tasks_by_hierarchy(get_list_tasks(source))
    /\ epic_number' = EpicStart
    /\ ei' = 1
    /\ si' = 0
    /\ pc' = "numbering"
    /\ UNCHANGED <<source, dry_run, exit_code, calls>>

\* a loop that gives up writing after the first write that raised
ApplyStopAfterError(kind, task, info, new_value, status) ==
    LET report == Event(kind, task.id, new_value)
    IN  IF dry_run \/ \E k \in 1..Len(calls) : calls[k].raised # ""
        THEN /\ out' = out \o <<report, Event("dry", task.id, new_value)>>
             /\ UNCHANGED <<calls, net>>
        ELSE LET r == update_custom_field(task.id, info.id, new_value, info.type,
                                          info.type_config, status)
             IN  /\ calls' = Append(calls, [task_id |-> task.id, value |-> new_value,
                                            raised |-> r.raised])
                 /\ net' = net \o r.sent
                 /\ out' = out \o <<report,
                                    Event(IF r.raised = "" THEN "updated" ELSE "error",
                                          task.id, new_value)>>

\* a loop that writes in preview mode too
ApplyIgnoringDryRun(kind, task, info, new_value, status) ==
    LET report == Event(kind, task.id, new_value)
        r == update_custom_field(task.id, info.id, new_value, info.type,
                                 info.type_config, status)
    IN  /\ calls' = Append(calls, [task_id |-> task.id, value |-> new_value,
                                   raised |-> r.raised])
        /\ net' = net \o r.sent
        /\ out' = out \o <<report,
                           Event(IF r.raised = "" THEN "updated" ELSE "error",
                                 task.id, new_value)>>

\* a loop that tries a write a second time when the first try raised
ApplyRetryOnce(kind, task, info, new_value, status) ==
    LET report == Event(kind, task.id, new_value)
    IN  IF dry_run
        THEN /\ out' = out \o <<report, Event("dry", task.id, new_value)>>
             /\ UNCHANGED <<calls, net>>
        ELSE LET r == update_custom_field(task.id, info.id, new_value, info.type,
                                          info.type_config, status)
                 call == [task_id |-> task.id, value |-> new_value, raised |-> r.raised]
             IN  /\ calls' = IF r.raised = "" THEN Append(calls, call)
                             ELSE calls \o <<call, call>>
                 /\ net' = IF r.raised = "" THEN net \o r.sent
                           ELSE net \o r.sent \o r.sent
                 /\ out' = out \o <<report,
                                    Event(IF r.raised = "" THEN "updated" ELSE "error",
                                          task.id, new_value)>>

\* What one pass through "report, then write or not" does to out, calls, net.
Apply(kind, task, info, new_value, status) ==
    LET report == Event(kind, task.id, new_value)
    IN  IF dry_run
        THEN /\ out' = out \o <<report, Event("dry", task.id, new_value)>>
             /\ UNCHANGED <<calls, net>>
        ELSE LET r == update_custom_field(task.id, info.id, new_value, info.type,
                                          info.type_config, status)
             IN  /\ calls' = Append(calls, [task_id |-> task.id, value |-> new_value,
                                            raised |-> r.raised])
                 /\ net' = net \o r.sent
                 /\ out' = out \o <<report,
                                    Event(IF r.raised = "" THEN "updated" ELSE "error",
                                          task.id, new_value)>>

\* the end of one iteration of the outer loop
NextEpic ==
    /\ epic_number' = epic_number + EpicIncrement
    /\ ei' = ei + 1
    /\ si' = 0

\* One iteration of the outer loop up to the inner loop: the epic itself.
EpicStep ==
    /\ pc = "numbering"
    /\ ei <= Len(organized)
    /\ si = 0
    /\ LET epic == organized[ei].task
           found == get_custom_field_info(epic.custom_fields, DefaultFieldName)
       IN  IF found = <<>>
           THEN /\ out' = Append(out, Event("warn_epic", epic.id, <<>>))
                /\ NextEpic
                /\ UNCHANGED <<calls, net>>
           ELSE /\ \E status \in Responses :
                       Apply("epic", epic, found[1], Str(epic_number), status)
                /\ IF organized[ei].subtasks = <<>>
                   THEN NextEpic
                   ELSE si' = 1 /\ UNCHANGED <<epic_number, ei>>
    /\ UNCHANGED <<source, dry_run, pc, exit_code, tasks, organized>>

\* One iteration of the inner loop: subtask number si of the current epic.
SubtaskStep ==
    /\ pc = "numbering"
    /\ ei <= Len(organized)
    /\ si >= 1
    /\ LET subtasks == organized[ei].subtasks
           subtask == subtasks[si]
           found == get_custom_field_info(subtask.custom_fields, DefaultFieldName)
       IN  /\ IF found = <<>>
              THEN /\ out' = Append(out, Event("warn_task", subtask.id, <<>>))
                   /\ UNCHANGED <<calls, net>>
              ELSE \E status \in Responses :
                       Apply("task", subtask, found[1],
                             FormatSubtask(epic_number, si), status)
           /\ IF si = Len(subtasks)
              THEN NextEpic
              ELSE si' = si + 1 /\ UNCHANGED <<epic_number, ei>>
    /\ UNCHANGED <<source, dry_run, pc, exit_code, tasks, organized>>

\* The loop is over: closing banner, return, exit status 0.
Finish ==
    /\ pc = "numbering"
    /\ ei > Len(organized)
    /\ out' = Append(out, Event(IF dry_run THEN "dry_run_complete"
                                 ELSE "numbering_complete", 0, <<>>))
    /\ pc' = "exited"
    /\ exit_code' = 0
    /\ UNCHANGED <<source, dry_run, tasks, organized, epic_number, ei, si, calls, net>>

Next == FetchFail \/ FetchEmpty \/ FetchTasks \/ EpicStep \/ SubtaskStep \/ Finish

Spec == Init /\ [][Next]_vars

InitFields ==
    /\ \E n \in 0..MaxTasks : source \in [1..n -> TaskAttrs(n, FieldOrders, FieldFields)]
    /\ NoSelfParent(source)
    /\ InitRun
SpecFields == InitFields /\ [][Next]_vars

InitWide ==
    /\ \/ source = <<>>
       \/ \E e \in WideEpicFields, c \in WideChildFields : source = WideList(e, c)
    /\ InitRun
SpecWide == InitWide /\ [][Next]_vars

\* ------------------------------------------- vocabulary of the properties
\* These are stated on the remote list itself, not on what the program
\* computed from it.
Ids == 1..Len(source)
Roots == {i \in Ids : source[i].parent = None}
ChildrenOf(r) == {i \in Ids : source[i].parent = r}
Grouped == Roots \cup {i \in Ids : source[i].parent \in Roots}

\* ascending order_index, ties in input order
Before(i, j) ==
    \/ source[i].order_index < source[j].order_index
    \/ source[i].order_index = source[j].order_index /\ i < j

RootRank(r) == 1 + Cardinality({j \in Roots : Before(j, r)})
ChildRank(c) == 1 + Cardinality({j \in ChildrenOf(source[c].parent) : Before(j, c)})

HasField(i) ==
    \E k \in 1..Len(source[i].custom_fields) :
        source[i].custom_fields[k].name = "PM.Prio"

\* position of a grouped item in numbering order: its epic's rank, then 0 for
\* the epic itself and the rank among the epic's children for a child
EpicOf(i) == IF i \in Roots THEN i ELSE source[i].parent
PosLess(i, j) ==
    LET gi == RootRank(EpicOf(i))
        gj == RootRank(EpicOf(j))
        ci == IF i \in Roots THEN 0 ELSE ChildRank(i)
        cj == IF j \in Roots THEN 0 ELSE ChildRank(j)
    IN  gi < gj \/ (gi = gj /\ ci < cj)

\* the number the k-th root is due, and the identifier its m-th child is due
EpicNumberOf(r) == 10 * RootRank(r)
DueValue(i) ==
    IF i \in Roots THEN Str(EpicNumberOf(i))
    ELSE Str(EpicNumberOf(source[i].parent)) \o <<".">> \o Str(ChildRank(i))

IsEpicReport(e) == e.ev = "epic"
IsTaskReport(e) == e.ev = "task"
EpicReports == SelectSeq(out, IsEpicReport)
TaskReports == SelectSeq(out, IsTaskReport)
Banners == SelectSeq(out, LAMBDA e : e.ev \in {"dry_run_complete", "numbering_complete"})

\* the loop ran to its end and number_tasks returned
Finished == pc = "exited" /\ exit_code = 0 /\ tasks # <<>>

Increasing(seq, less(_, _)) ==
    \A k, l \in 1..Len(seq) : k < l => less(seq[k].id, seq[l].id)

CallsOf(i) == {k \in 1..Len(calls) : calls[k].task_id = i}

\* ---------------------------------------------------------------- claims

\* C1 as stated: once the loop has finished, the epic numbers reported are
\* exactly 10, 20, ..., 10*N for the N roots, the k-th report being the root
\* that is k-th in ascending order_index order (ties in input order).
C1_AllRootsEmitted ==
    Finished =>
        /\ Len(EpicReports) = Cardinality(Roots)
        /\ \A k \in 1..Len(EpicReports) :
               /\ EpicReports[k].id \in Roots
               /\ RootRank(EpicReports[k].id) = k
               /\ EpicReports[k].value = Str(10 * k)

\* C1 amended: the root that is k-th in ascending order_index order (ties in
\* input order) is due the number 10*k; it is reported with that number, and
\* in a non-preview run passed once to update_custom_field with it, exactly
\* when it carries the field.  A root without the field is not reported and
\* its multiple of 10 is not emitted, so the reports are in sorted root order
\* with strictly increasing numbers among 10..10*N.
C1_RootsNumberedByRank ==
    Finished =>
        LET reported == {r \in Roots : HasField(r)}
        IN  /\ Len(EpicReports) = Cardinality(reported)
            /\ \A k \in 1..Len(EpicReports) :
                   /\ EpicReports[k].id \in reported
                   /\ EpicReports[k].value = Str(10 * RootRank(EpicReports[k].id))
            /\ Increasing(EpicReports, LAMBDA i, j : RootRank(i) < RootRank(j))
            /\ ~dry_run =>
                   \A r \in reported :
                       /\ Cardinality(CallsOf(r)) = 1
                       /\ \A k \in CallsOf(r) : calls[k].value = Str(10 * RootRank(r))

\* C1 witness: a non-preview run over three roots where the first in sorted
\* order has no field and the other two come in the reverse of input order;
\* they are reported as 20 and 30.
C1_Witness ==
    /\ Finished /\ ~dry_run
    /\ \E a, i, j \in Roots :
           /\ ~HasField(a) /\ RootRank(a) = 1
           /\ i < j /\ RootRank(j) = 2 /\ RootRank(i) = 3
           /\ EpicReports = <<Event("epic", j, <<"2", "0">>), Event("epic", i, <<"3", "0">>)>>

\* C2 as stated: once the loop has finished, for every root with epic number
\* E and M children the child identifiers reported are exactly E.1 .. E.M,
\* the k-th being the child that is k-th in ascending order_index order.
C2_AllChildrenEmitted ==
    Finished =>
        \A r \in Roots :
            LET reps == SelectSeq(TaskReports, LAMBDA e : source[e.id].parent = r)
            IN  /\ Len(reps) = Cardinality(ChildrenOf(r))
                /\ \A k \in 1..Len(reps) :
                       /\ ChildRank(reps[k].id) = k
                       /\ reps[k].value = Str(10 * RootRank(r)) \o <<".">> \o Str(k)

\* C2 amended: for a root with epic number E, the child that is k-th in
\* ascending order_index order (ties in input order) is due "E.k"; it is
\* reported with it, and in a non-preview run passed once to
\* update_custom_field with it, exactly when both the root and the child
\* carry the field.  Positions are strictly increasing and never reused, but
\* the position of a child without the field is skipped, and no child of a
\* root without the field is reported.
C2_ChildrenNumberedByRank ==
    Finished =>
        \A r \in Roots :
            LET reps == SelectSeq(TaskReports, LAMBDA e : source[e.id].parent = r)
                reported == IF HasField(r) THEN {c \in ChildrenOf(r) : HasField(c)} ELSE {}
            IN  /\ Len(reps) = Cardinality(reported)
                /\ \A k \in 1..Len(reps) :
                       /\ reps[k].id \in reported
                       /\ reps[k].value = Str(10 * RootRank(r)) \o <<".">>
                                              \o Str(ChildRank(reps[k].id))
                /\ Increasing(reps, LAMBDA i, j : ChildRank(i) < ChildRank(j))
                /\ ~dry_run =>
                       \A c \in reported :
                           /\ Cardinality(CallsOf(c)) = 1
                           /\ \A k \in CallsOf(c) : calls[k].value = DueValue(c)

\* C2 witness: a non-preview run where the root has two children in the
\* reverse of input order, the first in sorted order without the field; the
\* other one is reported as 10.2 and nothing is reported as 10.1.
C2_Witness ==
    /\ Finished /\ ~dry_run
    /\ \E r \in Roots : \E c, d \in ChildrenOf(r) :
           /\ HasField(r) /\ ~HasField(c) /\ HasField(d)
           /\ d < c /\ ChildRank(c) = 1 /\ ChildRank(d) = 2
           /\ TaskReports = <<Event("task", d, <<"1", "0", ".", "2">>)>>

\* how often task i occurs in the groups, as a root or as a child
Occurrences(i) ==
    Cardinality({g \in 1..Len(organized) : organized[g].task.id = i})
    + Cardinality({gk \in UNION {{<<g, k>> : k \in 1..Len(organized[g].subtasks)}
                                 : g \in 1..Len(organized)} :
                       organized[gk[1]].subtasks[gk[2]].id = i})

\* C7: in what organize_tasks_by_hierarchy returned for the fetched list
\* (identifiers unique), every task occurs at most once over all groups, as
\* a root or as a child; every child of a group has the group's root as its
\* parent; and a task whose parent is no root of the list, a child of a
\* child included, occurs in no group.
C7_GroupsPartition ==
    (pc # "start" /\ tasks # <<>>) =>
        /\ \A i \in Ids : Occurrences(i) <= 1
        /\ \A g \in 1..Len(organized) :
               /\ source[organized[g].task.id].parent = None
               /\ \A k \in 1..Len(organized[g].subtasks) :
                      source[organized[g].subtasks[k].id].parent = organized[g].task.id
        /\ \A i \in Ids :
               (source[i].parent # None /\ source[i].parent \notin Roots)
                   => Occurrences(i) = 0

\* C7 witness: a root, its child and a child of that child have been
\* organized: one group holding the child, the grandchild in no group.
C7_Witness ==
    /\ pc = "numbering"
    /\ \E r, c, o \in Ids :
           /\ source[r].parent = None /\ source[c].parent = r /\ source[o].parent = c
           /\ Len(organized) = 1
           /\ organized[1].task.id = r
           /\ Len(organized[1].subtasks) = 1
           /\ organized[1].subtasks[1].id = c
           /\ Occurrences(o) = 0

\* C9: the list fetch is the first request and the only GET; every later
\* request is a POST; update_custom_field is invoked, and its requests are
\* sent, in strictly increasing numbering order (an epic before its children,
\* children by position, a group before the next epic), so no task is the
\* subject of two invocations: a failed write is not retried.
C9_SequentialInOrder ==
    /\ (net = <<>>) => (calls = <<>>)
    /\ \A k \in 1..Len(net) : (net[k].method = "GET") <=> (k = 1)
    /\ \A k, l \in 1..Len(calls) :
           k < l => PosLess(calls[k].task_id, calls[l].task_id)
    /\ \A k, l \in 2..Len(net) :
           k < l => PosLess(net[k].task_id, net[l].task_id)
    /\ \A k \in 1..Len(calls) : calls[k].task_id \in Grouped

\* C9 witness: a non-preview run has written an epic, its child and then a
\* second epic that precedes the first in the input; the child's write
\* failed and was followed only by the next epic's.
C9_Witness ==
    /\ Finished /\ ~dry_run
    /\ Len(calls) = 3 /\ Len(net) = 4
    /\ calls[1].task_id \in Roots /\ calls[3].task_id \in Roots
    /\ calls[3].task_id < calls[1].task_id
    /\ source[calls[2].task_id].parent = calls[1].task_id
    /\ calls[2].raised = "RequestException"

CalledIds == {calls[k].task_id : k \in 1..Len(calls)}
LastEvent == out[Len(out)].ev

\* the grouped items the loop gets to write: those that carry the field and,
\* for a child, whose epic carries it too
Writable == {i \in Grouped : HasField(i) /\ HasField(EpicOf(i))}

\* C3 as stated: in a non-preview run that fetched tasks, an item without the
\* field is skipped alone: every grouped item that carries the field, the
\* children of an epic without the field included, is passed to
\* update_custom_field, and the run ends with "numbering complete".
C3_SkipIsPerItem ==
    (Finished /\ ~dry_run) =>
        /\ \A i \in Grouped : HasField(i) <=> (i \in CalledIds)
        /\ LastEvent = "numbering_complete"

\* C3 amended: in a non-preview run that fetched tasks, a missing field never
\* aborts the run: it exits with status 0 after the "numbering complete"
\* banner.  A child without the field is skipped alone; an epic without the
\* field is skipped together with all of its children.  The items passed to
\* update_custom_field are exactly the grouped items that carry the field
\* and, for a child, whose epic carries it too.
C3_SkipEpicWithChildren ==
    /\ (pc = "exited" /\ tasks # <<>>) => exit_code = 0
    /\ (Finished /\ ~dry_run) =>
           /\ CalledIds = Writable
           /\ LastEvent = "numbering_complete"

\* C3 witness: a non-preview run ended with the banner after skipping an
\* epic without the field together with its child that carries it, and
\* writing a later epic.
C3_Witness ==
    /\ Finished /\ ~dry_run /\ LastEvent = "numbering_complete"
    /\ \E r, w \in Roots : \E c \in ChildrenOf(r) :
           /\ ~HasField(r) /\ HasField(c) /\ c \notin CalledIds
           /\ RootRank(r) < RootRank(w) /\ w \in CalledIds

\* the calls after the k-th reach item i with the value it is due
CalledLater(k, i) ==
    \E l \in (k + 1)..Len(calls) :
        calls[l].task_id = i /\ calls[l].value = DueValue(i)

\* C4 as stated: in a non-preview run that fetched tasks, after a failed
\* write every later item in numbering order that carries the field is still
\* passed to update_custom_field with its own value, and the run ends with
\* "numbering complete".
C4_FailureNeverHalts ==
    (Finished /\ ~dry_run) =>
        /\ \A k \in 1..Len(calls) :
               calls[k].raised # "" =>
                   \A i \in Grouped :
                       (HasField(i) /\ PosLess(calls[k].task_id, i)) => CalledLater(k, i)
        /\ LastEvent = "numbering_complete"

\* C4 amended: in a non-preview run that fetched tasks, after a failed write
\* (ValueError of a field with options, error status, transport error) every
\* later item in numbering order that carries the field and, for a child,
\* whose epic carries it too, is still passed to update_custom_field with
\* its own value, and the run ends with "numbering complete".
C4_FailureIsolated ==
    (Finished /\ ~dry_run) =>
        /\ \A k \in 1..Len(calls) :
               calls[k].raised # "" =>
                   \A i \in Writable :
                       PosLess(calls[k].task_id, i) => CalledLater(k, i)
        /\ LastEvent = "numbering_complete"

\* C4 witness: a finished non-preview run in which a ValueError was followed
\* by a failed request and that by a successful write.
C4_Witness ==
    /\ Finished /\ ~dry_run /\ LastEvent = "numbering_complete"
    /\ Len(calls) = 3
    /\ calls[1].raised = "ValueError"
    /\ calls[2].raised = "RequestException"
    /\ calls[3].raised = ""

\* C5 as stated: a preview run never invokes update_custom_field, its only
\* request is the list fetch, and for any fetched list it ends with the
\* "dry run complete" banner.
C5_PreviewEndsWithBanner ==
    dry_run =>
        /\ calls = <<>>
        /\ \A k \in 1..Len(net) : k = 1 /\ net[k].method = "GET"
        /\ (pc = "exited" /\ exit_code = 0) => LastEvent = "dry_run_complete"

\* C5 amended: a preview run never invokes update_custom_field and its only
\* request is the list fetch; when the fetched list is not empty it ends with
\* the "dry run complete" banner and never prints "numbering complete"; when
\* the fetched list is empty it ends without a banner.
C5_PreviewWritesNothing ==
    dry_run =>
        /\ calls = <<>>
        /\ \A k \in 1..Len(net) : k = 1 /\ net[k].method = "GET"
        /\ \A k \in 1..Len(out) : out[k].ev # "numbering_complete"
        /\ Finished => (LastEvent = "dry_run_complete" /\ Len(Banners) = 1)
        /\ (pc = "exited" /\ exit_code = 0 /\ tasks = <<>>) => Banners = <<>>

\* C5 witness: a preview run reported an epic and a child, one of them with
\* a field that has options, and ended with its banner, the fetch its only
\* request.
C5_Witness ==
    /\ Finished /\ dry_run
    /\ Len(EpicReports) >= 1 /\ Len(TaskReports) >= 1
    /\ \E i \in Writable : \E k \in 1..Len(source[i].custom_fields) :
           source[i].custom_fields[k].type_config.options # <<>>
    /\ net = <<GetRequest>> /\ calls = <<>>
    /\ LastEvent = "dry_run_complete"

\* the field of task i that has the configured name
PrioFieldOf(i) ==
    source[i].custom_fields[CHOOSE k \in 1..Len(source[i].custom_fields) :
                                source[i].custom_fields[k].name = "PM.Prio"]
DeclaresOptions(i) == HasField(i) /\ PrioFieldOf(i).type_config.options # <<>>

\* C6: every invocation of update_custom_field for a task whose field
\* declares a non-empty list of options raises ValueError without sending a
\* request, whatever the value and the declared type; so no POST of the run
\* is for such a task.
C6_OptionsNeverWritten ==
    /\ \A k \in 1..Len(calls) :
           DeclaresOptions(calls[k].task_id) => calls[k].raised = "ValueError"
    /\ \A k \in 2..Len(net) : ~DeclaresOptions(net[k].task_id)
    /\ Len(net) <= 1 + Cardinality({k \in 1..Len(calls) : calls[k].raised # "ValueError"})

\* C6 witness: a finished non-preview run invoked update_custom_field for a
\* drop-down field and for a number field with options, both raising, and
\* sent exactly one POST, for a third task.
C6_Witness ==
    /\ Finished /\ ~dry_run
    /\ \E k, l \in 1..Len(calls) :
           /\ PrioFieldOf(calls[k].task_id).type = "drop_down"
           /\ PrioFieldOf(calls[l].task_id).type = "number"
           /\ calls[k].raised = "ValueError" /\ calls[l].raised = "ValueError"
    /\ Len(calls) = 3 /\ Len(net) = 2

\* C8: a run that has exited is one of three: the fetch failed (status 1,
\* nothing but the GET, no banner); the fetch returned no task (status 0, no
\* invocation of update_custom_field, no banner); the fetch returned tasks
\* (status 0, exactly one banner, printed last, the one of the run's mode).
\* A run that fetched tasks and has not exited yet is in the loop, has
\* printed no banner and can take a step.
C8_EarlyExitOnlyOnFetch ==
    /\ pc = "exited" =>
           \/ /\ exit_code = 1
              /\ tasks = <<>> /\ calls = <<>> /\ net = <<GetRequest>> /\ Banners = <<>>
           \/ /\ exit_code = 0
              /\ source = <<>> /\ tasks = <<>>
              /\ calls = <<>> /\ net = <<GetRequest>> /\ Banners = <<>>
           \/ /\ exit_code = 0
              /\ source # <<>> /\ tasks # <<>>
              /\ Len(Banners) = 1
              /\ LastEvent = IF dry_run THEN "dry_run_complete" ELSE "numbering_complete"
    /\ pc = "numbering" =>
           /\ tasks # <<>> /\ Banners = <<>> /\ exit_code = -1
           /\ ENABLED (EpicStep \/ SubtaskStep \/ Finish)
    /\ pc = "start" => (calls = <<>> /\ net = <<>>)

\* C8 witness: a non-preview run that fetched tasks went through a skipped
\* item and a failed write and still exited with status 0 after its banner.
C8_Witness ==
    /\ Finished /\ ~dry_run
    /\ \E k \in 1..Len(calls) : calls[k].raised = "RequestException"
    /\ \E k \in 1..Len(out) : out[k].ev = "warn_task"
    /\ LastEvent = "numbering_complete"

\* C10: in one run the values sent to two different tasks are never equal.
C10_SentValuesDistinct ==
    \A k, l \in 2..Len(net) :
        net[k].task_id # net[l].task_id => net[k].value # net[l].value

====
